---- MODULE Spec2Model ----
(***************************************************************************)
(* Model of mint-to-tiller-csv: the Flattener (mint-json-to-csv.py) and    *)
(* the Normalizer (mint-to-tiller-csv.py).                                 *)
(*                                                                         *)
(* Text is a sequence of code points (Python str), so that case folding,   *)
(* whitespace, digits and lexicographic order are computed, not assumed.   *)
(* Three specifications share the variables:                               *)
(*   SpecText       the pure text functions applied to bounded inputs      *)
(*   SpecNormalizer one run of transform_transactions, step by step        *)
(*   SpecFlattener  one run of the mint-json-to-csv.py script              *)
(***************************************************************************)
EXTENDS Integers, Sequences, FiniteSets, TLC

VARIABLES
    \* ---- SpecText
    text, tpc, tres,
    \* ---- SpecNormalizer
    columns, table, pc, df, pending_df, zero_amount_df, discarded_df,
    discard_file, output_df, output_file, error, today,
    \* ---- SpecFlattener
    data, fpc, keys, fieldnames, csv_file, stdout

textVars == <<text, tpc, tres>>
normVars == <<columns, table, pc, df, pending_df, zero_amount_df, discarded_df,
              discard_file, output_df, output_file, error, today>>
flatVars == <<data, fpc, keys, fieldnames, csv_file, stdout>>
vars == <<textVars, normVars, flatVars>>

(***************************************************************************)
(* Bounds                                                                  *)
(***************************************************************************)
MaxLen == 6        \* longest text enumerated over Alphabet
MaxFrags == 2      \* most fragments concatenated into an account name
MaxRows == 2       \* most rows of the Normalizer's input table
MaxRecords == 3    \* most records of the Flattener's input

(***************************************************************************)
(* Code points                                                             *)
(***************************************************************************)
SP == 32           \* ' ' of the pattern ' {2,}'
NL == 10           \* '\n', the newline '$' may stand before
Whitespace == {9, 10, 11, 12, 13, 28, 29, 30, 31, 32}   \* str.isspace, ASCII
Digits == 48..57                                        \* \d, ASCII
Lower(c) == IF c \in 65..90 THEN c + 32 ELSE c          \* str.lower, ASCII
Upper(c) == IF c \in 97..122 THEN c - 32 ELSE c         \* str.upper, ASCII
lower(s) == [i \in 1..Len(s) |-> Lower(s[i])]
upper(s) == [i \in 1..Len(s) |-> Upper(s[i])]

\* s.startswith(p)
startswith(s, p) ==
    /\ Len(p) <= Len(s)
    /\ SubSeq(s, 1, Len(p)) = p

\* p in s (substring test), scanning the offsets left to right
RECURSIVE InAt(_, _, _)
InAt(p, s, k) ==
    IF k + Len(p) > Len(s) THEN FALSE
    ELSE IF SubSeq(s, k + 1, k + Len(p)) = p THEN TRUE
    ELSE InAt(p, s, k + 1)
In(p, s) == InAt(p, s, 0)

(***************************************************************************)
(* collapse_multiple_spaces_to_two: re.sub(r' {2,}', '  ', text)           *)
(* A left-to-right scan; at a space followed by a space the greedy ' {2,}' *)
(* consumes the whole run and two spaces are emitted.                      *)
(***************************************************************************)
RECURSIVE RunEnd(_, _)
RunEnd(s, i) == IF i < Len(s) /\ s[i + 1] = SP THEN RunEnd(s, i + 1) ELSE i

RECURSIVE SubFrom(_, _)
SubFrom(s, i) ==
    IF i > Len(s) THEN <<>>
    ELSE IF s[i] = SP /\ i < Len(s) /\ s[i + 1] = SP
         THEN <<SP, SP>> \o SubFrom(s, RunEnd(s, i) + 1)
         ELSE <<s[i]>> \o SubFrom(s, i + 1)

\* mutant: collapses a run to one space, the usual whitespace collapsing
collapse_to_one(t) ==
    LET F[i \in 1..(Len(t) + 1)] ==
            IF i > Len(t) THEN <<>>
            ELSE IF t[i] = SP /\ i < Len(t) /\ t[i + 1] = SP
                 THEN <<SP>> \o F[RunEnd(t, i) + 1]
                 ELSE <<t[i]>> \o F[i + 1]
    IN F[1]

collapse_multiple_spaces_to_two(t) == SubFrom(t, 1)

(***************************************************************************)
(* str.strip(): leading and trailing whitespace removed                    *)
(***************************************************************************)
RECURSIVE lstrip(_)
lstrip(s) == IF s # <<>> /\ s[1] \in Whitespace THEN lstrip(Tail(s)) ELSE s

RECURSIVE rstrip(_)
rstrip(s) ==
    IF s # <<>> /\ s[Len(s)] \in Whitespace
    THEN rstrip(SubSeq(s, 1, Len(s) - 1)) ELSE s

str_strip(s) == rstrip(lstrip(s))

\* strip(text): collapse_multiple_spaces_to_two(text.strip())
strip(t) == collapse_multiple_spaces_to_two(str_strip(t))

(***************************************************************************)
(* derive_account_number: re.search(r"(\d{4})$", account_name)             *)
(* search tries the start offsets left to right; '$' matches at the end of *)
(* the string and just before a newline that ends the string.              *)
(***************************************************************************)
AtDollar(s, k) == k = Len(s) \/ (k = Len(s) - 1 /\ s[Len(s)] = NL)

MatchAt(s, k) ==
    /\ k + 4 <= Len(s)
    /\ \A i \in (k + 1)..(k + 4) : s[i] \in Digits
    /\ AtDollar(s, k + 4)

RECURSIVE SearchFrom(_, _)
SearchFrom(s, k) ==
    IF k > Len(s) THEN -1
    ELSE IF MatchAt(s, k) THEN k
    ELSE SearchFrom(s, k + 1)

XXXX == <<120, 120, 120, 120>>

\* mutant: the pattern without its '$' anchor, the first four digits anywhere
derive_account_number_unanchored(account_name) ==
    LET F[k \in 0..(Len(account_name) + 1)] ==
            IF k > Len(account_name) THEN -1
            ELSE IF /\ k + 4 <= Len(account_name)
                    /\ \A i \in (k + 1)..(k + 4) : account_name[i] \in Digits
                 THEN k
                 ELSE F[k + 1]
        m == F[0]
    IN IF m >= 0 THEN XXXX \o SubSeq(account_name, m + 1, m + 4) ELSE <<>>

derive_account_number(account_name) ==
    LET m == SearchFrom(account_name, 0)
    IN IF m >= 0 THEN XXXX \o SubSeq(account_name, m + 1, m + 4) ELSE <<>>

(***************************************************************************)
(* derive_institution                                                      *)
(***************************************************************************)
AdvPlusBanking == <<65, 100, 118, 32, 80, 108, 117, 115, 32, 66, 97, 110, 107, 105, 110, 103>>
AdvSafeBalanceBanking ==
    <<65, 100, 118, 32, 83, 97, 102, 101, 66, 97, 108, 97, 110, 99, 101, 32,
      66, 97, 110, 107, 105, 110, 103>>
UnlimitedCashRewards ==
    <<85, 110, 108, 105, 109, 105, 116, 101, 100, 32, 67, 97, 115, 104, 32,
      82, 101, 119, 97, 114, 100, 115, 32, 86, 105, 115, 97, 32, 83, 105, 103,
      110, 97, 116, 117, 114, 101>>
BankOfAmerica == <<66, 97, 110, 107, 32, 111, 102, 32, 65, 109, 101, 114, 105, 99, 97>>
WellsFargo == <<87, 101, 108, 108, 115, 32, 70, 97, 114, 103, 111>>
Chase == <<67, 104, 97, 115, 101>>
AmericanExpress == <<65, 109, 101, 114, 105, 99, 97, 110, 32, 69, 120, 112, 114, 101, 115, 115>>
MerrillLynch == <<77, 101, 114, 114, 105, 108, 108, 32, 76, 121, 110, 99, 104>>
CapitalOne == <<67, 97, 112, 105, 116, 97, 108, 32, 79, 110, 101>>
Vanguard == <<86, 97, 110, 103, 117, 97, 114, 100>>
HSABank == <<72, 83, 65, 32, 66, 97, 110, 107>>
Citi == <<67, 105, 116, 105>>
Unknown == <<85, 110, 107, 110, 111, 119, 110>>

known_institutions ==
    <<BankOfAmerica, WellsFargo, Chase, AmericanExpress, MerrillLynch,
      CapitalOne, Vanguard, HSABank, Citi>>

\* for name in known_institutions: if name.lower() in account_name.lower(): return name.strip()
RECURSIVE InstitutionLoop(_, _)
InstitutionLoop(account_name, i) ==
    IF i > Len(known_institutions) THEN Unknown
    ELSE IF In(lower(known_institutions[i]), lower(account_name))
         THEN str_strip(known_institutions[i])
         ELSE InstitutionLoop(account_name, i + 1)

\* mutant: the substring test is case-sensitive
derive_institution_case_sensitive(account_name) ==
    LET F[i \in 1..(Len(known_institutions) + 1)] ==
            IF i > Len(known_institutions) THEN Unknown
            ELSE IF In(known_institutions[i], account_name)
                 THEN known_institutions[i]
                 ELSE F[i + 1]
    IN IF \/ startswith(account_name, AdvPlusBanking)
          \/ startswith(account_name, AdvSafeBalanceBanking)
          \/ startswith(account_name, UnlimitedCashRewards)
       THEN BankOfAmerica
       ELSE F[1]

derive_institution(account_name) ==
    IF \/ startswith(account_name, AdvPlusBanking)
       \/ startswith(account_name, AdvSafeBalanceBanking)
    THEN BankOfAmerica
    ELSE IF startswith(account_name, UnlimitedCashRewards)
    THEN BankOfAmerica
    ELSE InstitutionLoop(account_name, 1)

(***************************************************************************)
(* format_amount                                                           *)
(***************************************************************************)
DEBIT == <<68, 69, 66, 73, 84>>
abs(n) == IF n < 0 THEN -n ELSE n

\* mutant: the sign of the input is kept for a credit and flipped for a debit
format_amount_no_abs(amount, transaction_type) ==
    IF upper(transaction_type) = DEBIT THEN -amount ELSE amount

format_amount(amount, transaction_type) ==
    IF upper(transaction_type) = DEBIT THEN -abs(amount) ELSE abs(amount)

(***************************************************************************)
(* Calendar: pd.to_datetime(...).dt.strftime / to_period("M") /            *)
(* to_period("W").  A date is [y, m, d]; a formatted date is the tuple of  *)
(* the numbers its text shows, <<month, day, year>>.                       *)
(***************************************************************************)
days_from_civil(date) ==
    LET y   == IF date.m <= 2 THEN date.y - 1 ELSE date.y
        era == y \div 400
        yoe == y - era * 400
        mp  == IF date.m > 2 THEN date.m - 3 ELSE date.m + 9
        doy == (153 * mp + 2) \div 5 + date.d - 1
        doe == yoe * 365 + yoe \div 4 - yoe \div 100 + doy
    IN era * 146097 + doe - 719468

civil_from_days(z0) ==
    LET z   == z0 + 719468
        era == z \div 146097
        doe == z - era * 146097
        yoe == (doe - doe \div 1460 + doe \div 36524 - doe \div 146096) \div 365
        doy == doe - (365 * yoe + yoe \div 4 - yoe \div 100)
        mp  == (5 * doy + 2) \div 153
        d   == doy - (153 * mp + 2) \div 5 + 1
        m   == IF mp < 10 THEN mp + 3 ELSE mp - 9
        y   == yoe + era * 400 + (IF m <= 2 THEN 1 ELSE 0)
    IN [y |-> y, m |-> m, d |-> d]

\* to_period("W").start_time: the Monday on or before the date
week_start(date) ==
    LET z == days_from_civil(date)
    IN civil_from_days(z - ((z + 3) % 7))

FormatDate(date)  == <<date.m, date.d, date.y>>             \* "%-m/%-d/%Y"
FormatMonth(date) == <<date.m, 1, date.y % 100>>            \* "{month}/1/{%y}"
FormatWeek(date)  ==                                        \* "{month}/{day}/{%y}"
    LET w == week_start(date) IN <<w.m, w.d, w.y % 100>>
FormatToday(t) == <<t.m, t.d, t.y>>                         \* "{month}/{day}/{year}"

(***************************************************************************)
(* The Normalizer's input: a CSV table                                     *)
(***************************************************************************)
AllColumns ==
    {"description", "accountName", "categoryName", "amount",
     "transactionType", "postedDate", "status"}

\* the tables read: every required column, or one of them missing
ColumnSets ==
    {AllColumns, AllColumns \ {"amount"}, AllColumns \ {"postedDate"},
     AllColumns \ {"status"}}

\* an amount cell: a numeral, or text that is no number
AmountCells ==
    {[numeric |-> TRUE, v |-> 0], [numeric |-> TRUE, v |-> 5],
     [numeric |-> TRUE, v |-> -7], [numeric |-> FALSE, v |-> 0]}

\* a postedDate cell: a date, or text that is no date
DateCells ==
    {[ok |-> TRUE, y |-> 2025, m |-> 1, d |-> 1],
     [ok |-> FALSE, y |-> 0, m |-> 0, d |-> 0]}

SampleDescription ==    \* "  Coffee    Shop "
    <<32, 32, 67, 111, 102, 102, 101, 101, 32, 32, 32, 32, 83, 104, 111, 112, 32>>
SampleAccountName ==    \* "Adv Plus Banking 9876"
    <<65, 100, 118, 32, 80, 108, 117, 115, 32, 66, 97, 110, 107, 105, 110, 103,
      32, 57, 56, 55, 54>>
SampleCategoryName ==   \* "Dining  Out"
    <<68, 105, 110, 105, 110, 103, 32, 32, 79, 117, 116>>

StatusCells == {"PENDING", "POSTED", "pending"}
TypeCells ==
    {<<68, 101, 98, 105, 116>>,             \* "Debit"
     <<99, 114, 101, 100, 105, 116>>}       \* "credit"

MakeRow(cols, st, am, ty, dt) ==
    [c \in cols |->
        CASE c = "status"          -> st
          [] c = "amount"          -> am
          [] c = "transactionType" -> ty
          [] c = "postedDate"      -> dt
          [] c = "description"     -> SampleDescription
          [] c = "accountName"     -> SampleAccountName
          [] c = "categoryName"    -> SampleCategoryName]

RowsOver(cols) ==
    {MakeRow(cols, st, am, ty, dt) :
        st \in StatusCells, am \in AmountCells, ty \in TypeCells, dt \in DateCells}

(***************************************************************************)
(* transform_transactions, lines 85-132: one VALID row mapped to the 18    *)
(* output columns.  amount is the parsed number, date the parsed date.     *)
(***************************************************************************)
out_cols ==
    <<"Date", "Description", "Category", "Amount", "Account", "Account #",
      "Institution", "Month", "Week", "Transaction ID", "Account ID",
      "Check Number", "Full Description", "Date Added", "Category Hint",
      "Categorized By", "Categorized Date", "Source">>

OutColSet == {out_cols[i] : i \in 1..Len(out_cols)}
Mint == <<77, 105, 110, 116>>
Empty == <<>>

TransformRow(r, amount, date, t) ==
    [c \in OutColSet |->
        CASE c = "Full Description" -> strip(r["description"])
          [] c = "Account"          -> strip(r["accountName"])
          [] c = "Category Hint"    -> strip(r["categoryName"])
          [] c = "Date Added"       -> FormatToday(t)
          [] c = "Amount"           -> format_amount(amount, r["transactionType"])
          [] c = "Date"             -> FormatDate(date)
          [] c = "Description"      -> strip(r["description"])
          [] c = "Account #"        -> derive_account_number(r["accountName"])
          [] c = "Institution"      -> derive_institution(r["accountName"])
          [] c = "Month"            -> FormatMonth(date)
          [] c = "Week"             -> FormatWeek(date)
          [] c = "Source"           -> Mint
          [] OTHER                  -> Empty]

Todays == {[y |-> 2026, m |-> 11, d |-> 5], [y |-> 2027, m |-> 1, d |-> 31]}
NoDate == [y |-> 0, m |-> 0, d |-> 0]

(***************************************************************************)
(* Idle values: what a specification leaves of the other two's variables   *)
(***************************************************************************)
NoFile == [written |-> FALSE, header |-> <<>>, rows |-> <<>>]

TextIdle ==
    /\ text = <<>>
    /\ tpc = "idle"
    /\ tres = <<>>

NormIdle ==
    /\ columns = {}
    /\ table = <<>>
    /\ pc = "idle"
    /\ df = <<>>
    /\ pending_df = <<>>
    /\ zero_amount_df = <<>>
    /\ discarded_df = <<>>
    /\ discard_file = NoFile
    /\ output_df = <<>>
    /\ output_file = NoFile
    /\ error = "none"
    /\ today = NoDate

FlatIdle ==
    /\ data = <<>>
    /\ fpc = "idle"
    /\ keys = {}
    /\ fieldnames = <<>>
    /\ csv_file = NoFile
    /\ stdout = <<>>

(***************************************************************************)
(* SpecText: strip, derive_account_number, derive_institution and the row  *)
(* mapping applied to every text of a bounded set                          *)
(***************************************************************************)
Alphabet == {SP, NL, 97, 55}       \* ' ', '\n', 'a', '7'

Strings(n) == UNION {[1..k -> Alphabet] : k \in 0..n}

Fragments ==
    {AdvPlusBanking, AdvSafeBalanceBanking, UnlimitedCashRewards,
     BankOfAmerica, AmericanExpress, CapitalOne, Vanguard, HSABank,
     <<119, 101, 108, 108, 115, 32, 102, 97, 114, 103, 111>>,            \* "wells fargo"
     <<67, 72, 65, 83, 69>>,                                             \* "CHASE"
     <<67, 104, 97, 115>>,                                               \* "Chas"
     <<101>>,                                                            \* "e"
     <<109, 101, 114, 114, 105, 108, 108, 32, 108, 121, 110, 99, 104>>,  \* "merrill lynch"
     <<99, 105, 116, 105>>,                                              \* "citi"
     <<97, 100, 118, 32, 112, 108, 117, 115, 32, 98, 97, 110, 107, 105, 110, 103>>, \* "adv plus banking"
     <<77, 121, 32>>,                                                    \* "My "
     <<32, 49, 50, 51, 52>>}                                             \* " 1234"

RECURSIVE Concats(_)
Concats(n) ==
    IF n = 0 THEN {<<>>}
    ELSE LET P == Concats(n - 1) IN P \cup {p \o f : p \in P, f \in Fragments}

TextInputs == Strings(MaxLen) \cup Concats(MaxFrags)

\* a row whose three text columns hold the text
TextRow(t) ==
    [c \in AllColumns \ {"amount", "postedDate", "status"} |->
        IF c = "transactionType" THEN DEBIT ELSE t]

InitText ==
    /\ text \in TextInputs
    /\ tpc = "input"
    /\ tres = <<>>
    /\ NormIdle
    /\ FlatIdle

ApplyStrip ==
    /\ tpc = "input"
    /\ tres' = strip(text)
    /\ tpc' = "strip"
    /\ UNCHANGED <<text, normVars, flatVars>>

ApplyDeriveAccountNumber ==
    /\ tpc = "input"
    /\ tres' = derive_account_number(text)
    /\ tpc' = "derive_account_number"
    /\ UNCHANGED <<text, normVars, flatVars>>

ApplyDeriveInstitution ==
    /\ tpc = "input"
    /\ tres' = derive_institution(text)
    /\ tpc' = "derive_institution"
    /\ UNCHANGED <<text, normVars, flatVars>>

ApplyTransformRow ==
    /\ tpc = "input"
    /\ \E d \in {c \in DateCells : c.ok}, t \in Todays :
          tres' = TransformRow(TextRow(text), 5, [y |-> d.y, m |-> d.m, d |-> d.d], t)
    /\ tpc' = "transform"
    /\ UNCHANGED <<text, normVars, flatVars>>

NextText ==
    \/ ApplyStrip
    \/ ApplyDeriveAccountNumber
    \/ ApplyDeriveInstitution
    \/ ApplyTransformRow

SpecText == InitText /\ [][NextText]_vars

(***************************************************************************)
(* SpecNormalizer: one run of transform_transactions                       *)
(* A DataFrame is a sequence of [index, row]; index is the row's label.    *)
(***************************************************************************)
ColumnOrder ==
    <<"description", "accountName", "categoryName", "amount",
      "transactionType", "postedDate", "status">>

InSet(S) == [c \in AllColumns |-> c \in S]
HeaderOf(cols) == LET keep == InSet(cols) IN SelectSeq(ColumnOrder, LAMBDA c : keep[c])

\* the sequences of at most n elements of S
SeqsUpTo(S, n) == UNION {[1..k -> S] : k \in 0..n}

\* pd.read_csv(input_file, low_memory=False): an amount column whose cells are
\* all numerals is numeric; one cell that is no number makes it an object
\* column in which every cell, numerals included, stays text.
read_csv(cols, cells) ==
    LET numericColumn ==
            "amount" \in cols => \A i \in 1..Len(cells) : cells[i]["amount"].numeric
        parse(r) ==
            [c \in cols |->
                IF c = "amount"
                THEN [numeric |-> r[c].numeric, v |-> r[c].v,
                      dtype |-> IF numericColumn THEN "float64" ELSE "object"]
                ELSE r[c]]
    IN [i \in 1..Len(cells) |-> [index |-> i - 1, row |-> parse(cells[i])]]

\* DataFrame.to_csv(path, index=False): header and cells, no index, no dtype
CellText(c, x) == IF c = "amount" THEN [numeric |-> x.numeric, v |-> x.v] ELSE x
to_csv(header, frame) ==
    [written |-> TRUE,
     header  |-> header,
     rows    |-> [k \in 1..Len(frame) |->
                    [i \in 1..Len(header) |-> CellText(header[i], frame[k].row[header[i]])]]]

\* df['amount'] == 0, one element: an object cell is text and equals no number
EqZero(x) == x.dtype = "float64" /\ x.v = 0

Labels(frame) == [k \in 1..Len(frame) |-> frame[k].index]
Range(q) == {q[k] : k \in 1..Len(q)}

\* mutant: the status is matched whatever its case
filter_pending_any_case(frame) ==
    Labels(SelectSeq(frame, LAMBDA e : e.row["status"] \in {"PENDING", "pending"}))

\* filter_pending_transactions: df[df['status'] == 'PENDING'].index.tolist()
filter_pending_transactions(frame) ==
    Labels(SelectSeq(frame, LAMBDA e : e.row["status"] = "PENDING"))

\* df.loc[labels]: the rows with these labels, in the order of the labels
Loc(frame, labels) ==
    [k \in 1..Len(labels) |->
        frame[CHOOSE j \in 1..Len(frame) : frame[j].index = labels[k]]]

\* mutant: nothing is dropped
DropNothing(frame, labels) == frame

\* df.drop(labels)
Drop(frame, labels) == SelectSeq(frame, LAMBDA e : e.index \notin Range(labels))

\* mutant: the zero-amount rows come first
concat_zero_first(a, b) ==
    LET all == b \o a
    IN [k \in 1..Len(all) |-> [index |-> k - 1, row |-> all[k].row]]

\* pd.concat([a, b], ignore_index=True)
concat(a, b) ==
    LET all == a \o b
    IN [k \in 1..Len(all) |-> [index |-> k - 1, row |-> all[k].row]]

InitNormalizer ==
    /\ columns \in ColumnSets
    /\ table \in SeqsUpTo(RowsOver(columns), MaxRows)
    /\ pc = "read_csv"
    /\ df = <<>>
    /\ pending_df = <<>>
    /\ zero_amount_df = <<>>
    /\ discarded_df = <<>>
    /\ discard_file = NoFile
    /\ output_df = <<>>
    /\ output_file = NoFile
    /\ error = "none"
    /\ today = NoDate
    /\ TextIdle
    /\ FlatIdle

\* line 60
ReadCsv ==
    /\ pc = "read_csv"
    /\ df' = read_csv(columns, table)
    /\ pc' = "filter_pending"
    /\ UNCHANGED <<columns, table, pending_df, zero_amount_df, discarded_df,
                   discard_file, output_df, output_file, error, today,
                   textVars, flatVars>>

\* lines 64-70; df['status'] raises KeyError when the column is missing
FilterPending ==
    /\ pc = "filter_pending"
    /\ IF "status" \notin columns
       THEN /\ pc' = "failed"
            /\ error' = "KeyError: 'status'"
            /\ UNCHANGED <<df, pending_df>>
       ELSE LET pending_indices == filter_pending_transactions(df)
            IN /\ pending_df' = Loc(df, pending_indices)
               /\ df' = Drop(df, pending_indices)
               /\ pc' = "filter_zero"
               /\ UNCHANGED error
    /\ UNCHANGED <<columns, table, zero_amount_df, discarded_df, discard_file,
                   output_df, output_file, today, textVars, flatVars>>

\* lines 72-75; df['amount'] raises KeyError when the column is missing
FilterZero ==
    /\ pc = "filter_zero"
    /\ IF "amount" \notin columns
       THEN /\ pc' = "failed"
            /\ error' = "KeyError: 'amount'"
            /\ UNCHANGED <<df, zero_amount_df>>
       ELSE /\ zero_amount_df' = SelectSeq(df, LAMBDA e : EqZero(e.row["amount"]))
            /\ df' = SelectSeq(df, LAMBDA e : ~EqZero(e.row["amount"]))
            /\ pc' = "write_discard"
            /\ UNCHANGED error
    /\ UNCHANGED <<columns, table, pending_df, discarded_df, discard_file,
                   output_df, output_file, today, textVars, flatVars>>

\* lines 77-81
WriteDiscard ==
    /\ pc = "write_discard"
    /\ discarded_df' = concat(pending_df, zero_amount_df)
    /\ discard_file' = IF Len(discarded_df') > 0
                       THEN to_csv(HeaderOf(columns), discarded_df')
                       ELSE discard_file
    /\ pc' = "map_fields"
    /\ UNCHANGED <<columns, table, df, pending_df, zero_amount_df, output_df,
                   output_file, error, today, textVars, flatVars>>

\* the first exception lines 92-132 raise on this frame, "none" when they run through
MapError(cols, frame) ==
    LET missing(c) == c \notin cols
    IN CASE missing("description")     -> "KeyError: 'description'"      \* line 95
         [] missing("accountName")     -> "KeyError: 'accountName'"      \* line 96
         [] missing("categoryName")    -> "KeyError: 'categoryName'"     \* line 97
         [] missing("transactionType") -> "KeyError: 'transactionType'"  \* line 105
         [] \E k \in 1..Len(frame) : frame[k].row["amount"].dtype = "object"
                                       -> "TypeError: bad operand type for abs()"  \* line 45/47
         [] missing("postedDate")      -> "KeyError: 'postedDate'"       \* line 109
         [] \E k \in 1..Len(frame) : ~frame[k].row["postedDate"].ok
                                       -> "ValueError: unparseable date" \* line 109
         [] OTHER                      -> "none"

\* pd.to_datetime of one parseable cell
to_datetime(cell) == [y |-> cell.y, m |-> cell.m, d |-> cell.d]

\* lines 83-132
MapFields ==
    /\ pc = "map_fields"
    /\ \E t \in Todays : today' = t
    /\ LET e == MapError(columns, df)
       IN IF e # "none"
          THEN /\ pc' = "failed"
               /\ error' = e
               /\ UNCHANGED output_df
          ELSE /\ output_df' =
                     [k \in 1..Len(df) |->
                         [index |-> df[k].index,
                          row   |-> TransformRow(df[k].row, df[k].row["amount"].v,
                                                 to_datetime(df[k].row["postedDate"]),
                                                 today')]]
               /\ pc' = "save_output"
               /\ UNCHANGED error
    /\ UNCHANGED <<columns, table, df, pending_df, zero_amount_df, discarded_df,
                   discard_file, output_file, textVars, flatVars>>

\* lines 134-137
SaveOutput ==
    /\ pc = "save_output"
    /\ output_file' =
          [written |-> TRUE,
           header  |-> out_cols,
           rows    |-> [k \in 1..Len(output_df) |->
                          [i \in 1..Len(out_cols) |-> output_df[k].row[out_cols[i]]]]]
    /\ pc' = "done"
    /\ UNCHANGED <<columns, table, df, pending_df, zero_amount_df, discarded_df,
                   discard_file, output_df, error, today, textVars, flatVars>>

NextNormalizer ==
    \/ ReadCsv
    \/ FilterPending
    \/ FilterZero
    \/ WriteDiscard
    \/ MapFields
    \/ SaveOutput

SpecNormalizer == InitNormalizer /\ [][NextNormalizer]_vars

(***************************************************************************)
(* SpecFlattener: one run of mint-json-to-csv.py                           *)
(* A record is a function from its keys (texts) to values.                 *)
(***************************************************************************)
K_tags == <<116, 97, 103, 115>>
K_escrow == <<101, 115, 99, 114, 111, 119>>
K_escrowCurrency == <<101, 115, 99, 114, 111, 119, 67, 117, 114, 114, 101, 110, 99, 121>>
K_discretionaryType ==
    <<100, 105, 115, 99, 114, 101, 116, 105, 111, 110, 97, 114, 121, 84, 121, 112, 101>>
K_principal == <<112, 114, 105, 110, 99, 105, 112, 97, 108>>
K_principalCurrency ==
    <<112, 114, 105, 110, 99, 105, 112, 97, 108, 67, 117, 114, 114, 101, 110, 99, 121>>
K_quantity == <<113, 117, 97, 110, 116, 105, 116, 121>>
K_amount == <<97, 109, 111, 117, 110, 116>>
K_id == <<105, 100>>
K_Zed == <<90, 101, 100>>
K_Tags == <<84, 97, 103, 115>>

EXCLUDED_KEYS ==
    {K_tags, K_escrow, K_escrowCurrency, K_discretionaryType,
     K_principal, K_principalCurrency, K_quantity}

\* the key sets of the records read
KeySets ==
    {{}, {K_id}, {K_amount, K_id}, {K_Zed, K_amount}, {K_tags, K_amount},
     {K_escrow, K_escrowCurrency, K_id}, {K_discretionaryType, K_Tags},
     {K_principal, K_principalCurrency, K_Zed}, {K_quantity, K_amount, K_id},
     {K_tags, K_quantity}}

Records == {[k \in ks |-> "v"] : ks \in KeySets}

\* a < b for Python str: code points compared left to right, a prefix first
RECURSIVE StrLess(_, _)
StrLess(a, b) ==
    IF b = <<>> THEN FALSE
    ELSE IF a = <<>> THEN TRUE
    ELSE IF a[1] # b[1] THEN a[1] < b[1]
    ELSE StrLess(Tail(a), Tail(b))

\* mutant: the keys are listed longest first, no order by name
RECURSIVE sorted_by_length(_)
sorted_by_length(S) ==
    IF S = {} THEN <<>>
    ELSE LET m == CHOOSE x \in S : \A y \in S : Len(x) > Len(y) \/ (Len(x) = Len(y) /\ ~StrLess(y, x))
         IN <<m>> \o sorted_by_length(S \ {m})

\* sorted(keys)
RECURSIVE sorted(_)
sorted(S) ==
    IF S = {} THEN <<>>
    ELSE LET m == CHOOSE x \in S : \A y \in S : ~StrLess(y, x)
         IN <<m>> \o sorted(S \ {m})

\* for item in data: keys.update(item.keys())
RECURSIVE update_all(_, _, _)
update_all(ks, items, i) ==
    IF i > Len(items) THEN ks
    ELSE update_all(ks \cup DOMAIN items[i], items, i + 1)

\* csv.DictWriter(f, fieldnames, extrasaction='ignore').writerows(data):
\* rowdict.get(key, restval) for every fieldname, restval ''
writerows(names, items) ==
    [k \in 1..Len(items) |->
        [i \in 1..Len(names) |->
            IF names[i] \in DOMAIN items[k] THEN items[k][names[i]] ELSE ""]]

InitFlattener ==
    /\ data \in SeqsUpTo(Records, MaxRecords)
    /\ fpc = "check_data"
    /\ keys = {}
    /\ fieldnames = <<>>
    /\ csv_file = NoFile
    /\ stdout = <<>>
    /\ TextIdle
    /\ NormIdle

\* line 14: if data
CheckData ==
    /\ fpc = "check_data"
    /\ fpc' = IF data # <<>> THEN "collect_keys" ELSE "done"
    /\ UNCHANGED <<data, keys, fieldnames, csv_file, stdout, textVars, normVars>>

\* lines 15-18
CollectKeys ==
    /\ fpc = "collect_keys"
    /\ keys' = update_all({}, data, 1)
    /\ fpc' = "remove_excluded"
    /\ UNCHANGED <<data, fieldnames, csv_file, stdout, textVars, normVars>>

\* lines 20-21
RemoveExcluded ==
    /\ fpc = "remove_excluded"
    /\ keys' = keys \ EXCLUDED_KEYS
    /\ fpc' = "sort_keys"
    /\ UNCHANGED <<data, fieldnames, csv_file, stdout, textVars, normVars>>

\* lines 23-24
SortKeys ==
    /\ fpc = "sort_keys"
    /\ fieldnames' = sorted(keys)
    /\ fpc' = "write_csv"
    /\ UNCHANGED <<data, keys, csv_file, stdout, textVars, normVars>>

\* lines 26-30
WriteCsv ==
    /\ fpc = "write_csv"
    /\ csv_file' = [written |-> TRUE, header |-> fieldnames,
                    rows |-> writerows(fieldnames, data)]
    /\ fpc' = "print_summary"
    /\ UNCHANGED <<data, keys, fieldnames, stdout, textVars, normVars>>

\* lines 32-33
PrintSummary ==
    /\ fpc = "print_summary"
    /\ stdout' = stdout \o
          <<[line |-> "Successfully converted records", records |-> Len(data),
             columns |-> <<>>],
            [line |-> "Columns", records |-> Len(data), columns |-> fieldnames]>>
    /\ fpc' = "done"
    /\ UNCHANGED <<data, keys, fieldnames, csv_file, textVars, normVars>>

NextFlattener ==
    \/ CheckData
    \/ CollectKeys
    \/ RemoveExcluded
    \/ SortKeys
    \/ WriteCsv
    \/ PrintSummary

SpecFlattener == InitFlattener /\ [][NextFlattener]_vars

(***************************************************************************)
(* Properties of the text functions (SpecText)                             *)
(***************************************************************************)
\* the text between its first and last non-whitespace characters
Trimmed(s) ==
    LET N == {i \in 1..Len(s) : s[i] \notin Whitespace}
    IN IF N = {} THEN <<>>
       ELSE SubSeq(s, CHOOSE i \in N : \A j \in N : i <= j,
                      CHOOSE i \in N : \A j \in N : i >= j)

\* the maximal runs of a text, as <<character, length>> pairs
RECURSIVE Runs(_)
Runs(s) ==
    IF s = <<>> THEN <<>>
    ELSE LET e == CHOOSE j \in 1..Len(s) :
                     /\ \A i \in 1..j : s[i] = s[1]
                     /\ j = Len(s) \/ s[j + 1] # s[1]
         IN <<<<s[1], e>>>> \o Runs(SubSeq(s, e + 1, Len(s)))

CapSpaceRuns(rs) ==
    [i \in 1..Len(rs) |->
        IF rs[i][1] = SP /\ rs[i][2] >= 2 THEN <<SP, 2>> ELSE rs[i]]

NoEdgeWhitespace(r) ==
    r = <<>> \/ (r[1] \notin Whitespace /\ r[Len(r)] \notin Whitespace)

NoTripleSpace(r) ==
    \A i \in 1..(Len(r) - 2) : ~(r[i] = SP /\ r[i + 1] = SP /\ r[i + 2] = SP)

StripRule(t, r) ==
    /\ NoEdgeWhitespace(r)
    /\ Runs(r) = CapSpaceRuns(Runs(Trimmed(t)))
    /\ NoTripleSpace(r)

\* C10: strip(text) has no leading or trailing whitespace; it is the trimmed
\* text with every run of two or more spaces replaced by exactly two spaces and
\* everything else unchanged, so it holds no run of three spaces and strip
\* leaves it as it is; Description, Full Description, Account and Category Hint
\* are all produced by this rule.
C10_StripCollapsesToTwo ==
    /\ tpc = "strip" =>
          /\ StripRule(text, tres)
          /\ strip(tres) = tres
    /\ tpc = "transform" =>
          \A c \in {"Description", "Full Description", "Account", "Category Hint"} :
              StripRule(text, tres[c])

\* C10 witness: a text with leading whitespace and an inner run of three
\* spaces has been stripped to the same text with a run of two.
C10_Witness ==
    /\ tpc = "strip"
    /\ text = <<SP, 97, SP, SP, SP, 97>>
    /\ tres = <<97, SP, SP, 97>>

\* the end of the text that '$' anchors to: the end, or before a final newline
DollarEnd(s) == IF s # <<>> /\ s[Len(s)] = NL THEN Len(s) - 1 ELSE Len(s)

FourDigitsEndAt(s, e) == e >= 4 /\ \A i \in (e - 3)..e : s[i] \in Digits

AccountNumberAmended(s, r) ==
    LET e == DollarEnd(s)
    IN r = IF FourDigitsEndAt(s, e) THEN XXXX \o SubSeq(s, e - 3, e) ELSE <<>>

\* the account name ends with exactly four decimal digits
EndsWithExactlyFourDigits(s) ==
    /\ FourDigitsEndAt(s, Len(s))
    /\ Len(s) = 4 \/ s[Len(s) - 4] \notin Digits

AccountNumberOriginal(s, r) ==
    r = IF EndsWithExactlyFourDigits(s)
        THEN XXXX \o SubSeq(s, Len(s) - 3, Len(s)) ELSE <<>>

\* C8 (as stated): derive_account_number returns "xxxx" and the last four
\* characters when accountName ends with exactly four decimal digits, and the
\* empty string otherwise.
C8_ExactlyFourDigitsAtEnd ==
    /\ tpc = "derive_account_number" => AccountNumberOriginal(text, tres)
    /\ tpc = "transform" => AccountNumberOriginal(text, tres["Account #"])

\* C8 (amended): derive_account_number returns "xxxx" and the four digits that
\* end accountName when accountName, a single final newline set aside, ends
\* with at least four decimal digits, and the empty string otherwise.
C8_LastFourDigits ==
    /\ tpc = "derive_account_number" => AccountNumberAmended(text, tres)
    /\ tpc = "transform" => AccountNumberAmended(text, tres["Account #"])

\* C8 witness: a name of five digits and a final newline gave "xxxx" and the
\* last four digits.
C8_Witness ==
    /\ tpc = "derive_account_number"
    /\ text = <<55, 55, 55, 55, 55, NL>>
    /\ tres = XXXX \o <<55, 55, 55, 55>>

\* name occurs in s as a case-insensitive substring
OccursIgnoringCase(name, s) ==
    \E k \in 0..(Len(s) - Len(name)) :
        \A i \in 1..Len(name) : Lower(s[k + i]) = Lower(name[i])

BeginsWith(s, p) == Len(s) >= Len(p) /\ \A i \in 1..Len(p) : s[i] = p[i]

InstitutionRule(s, r) ==
    LET ruleA == BeginsWith(s, AdvPlusBanking) \/ BeginsWith(s, AdvSafeBalanceBanking)
        ruleB == BeginsWith(s, UnlimitedCashRewards)
        hits  == {i \in 1..Len(known_institutions) :
                     OccursIgnoringCase(known_institutions[i], s)}
    IN /\ ruleA => r = BankOfAmerica
       /\ ruleB => r = BankOfAmerica
       /\ (~ruleA /\ ~ruleB /\ hits # {}) =>
              r = known_institutions[CHOOSE i \in hits : \A j \in hits : i <= j]
       /\ r = Unknown <=> (~ruleA /\ ~ruleB /\ hits = {})

\* C7: derive_institution gives "Bank of America" for a name beginning with
\* one of the three prefixes, otherwise the first entry of the ordered list
\* that occurs in the name ignoring case, and "Unknown" exactly when no rule
\* matches.
C7_InstitutionFirstMatchWins ==
    /\ tpc = "derive_institution" => InstitutionRule(text, tres)
    /\ tpc = "transform" => InstitutionRule(text, tres["Institution"])

\* C7 witness: "citiCHASE" names two institutions; Chase, earlier in the list
\* though later in the name and in another case, is the result.
C7_Witness ==
    /\ tpc = "derive_institution"
    /\ text = <<99, 105, 116, 105>> \o <<67, 72, 65, 83, 69>>
    /\ tres = Chase

(***************************************************************************)
(* Properties of the Normalizer (SpecNormalizer)                           *)
(* The classes are stated on the input table, by position.                 *)
(***************************************************************************)
Positions == 1..Len(table)

\* the amount column is numeric: every one of its cells is a numeral
AmountColumnNumeric == \A i \in Positions : table[i]["amount"].numeric

PendingClass == {i \in Positions : table[i]["status"] = "PENDING"}
ZeroClass ==
    {i \in Positions \ PendingClass : AmountColumnNumeric /\ table[i]["amount"].v = 0}
ValidClass == Positions \ (PendingClass \cup ZeroClass)

\* the positions of a set in ascending order
RECURSIVE Ascending(_)
Ascending(S) ==
    IF S = {} THEN <<>>
    ELSE LET lo == CHOOSE i \in S : \A j \in S : i <= j
         IN <<lo>> \o Ascending(S \ {lo})

\* the input positions a frame's labels name
PositionsOf(frame) == [k \in 1..Len(frame) |-> frame[k].index + 1]

Finished == pc \in {"done", "failed"}
Classified ==
    \/ pc \in {"write_discard", "map_fields", "save_output", "done"}
    \/ pc = "failed" /\ error \notin {"KeyError: 'status'", "KeyError: 'amount'"}
DiscardBuilt ==
    \/ pc \in {"map_fields", "save_output", "done"}
    \/ pc = "failed" /\ error \notin {"KeyError: 'status'", "KeyError: 'amount'"}

\* C1: every input row is in exactly one of the PENDING-discarded, the
\* ZERO-discarded and the VALID rows: PENDING-discarded iff its status is
\* exactly "PENDING", ZERO-discarded iff not PENDING-discarded and its amount
\* equals 0, VALID otherwise; a PENDING row with amount 0 is discarded once, as
\* PENDING, and discarded plus VALID rows number the input rows.
C1_RowsClassifiedOnce ==
    Classified =>
        /\ PositionsOf(pending_df) = Ascending(PendingClass)
        /\ PositionsOf(zero_amount_df) = Ascending(ZeroClass)
        /\ PositionsOf(df) = Ascending(ValidClass)
        /\ \A i \in Positions :
              Cardinality({k \in 1..Len(pending_df) : pending_df[k].index + 1 = i})
            + Cardinality({k \in 1..Len(zero_amount_df) : zero_amount_df[k].index + 1 = i})
            + Cardinality({k \in 1..Len(df) : df[k].index + 1 = i}) = 1
        /\ DiscardBuilt =>
              /\ Len(discarded_df) = Len(pending_df) + Len(zero_amount_df)
              /\ Len(discarded_df) + Len(df) = Len(table)

\* C1 witness: a PENDING row with amount 0 and a settled row with amount 0 have
\* been classified, one as PENDING and one as zero-amount.
C1_Witness ==
    /\ DiscardBuilt
    /\ columns = AllColumns
    /\ Len(table) = 2
    /\ table[1]["status"] = "PENDING" /\ table[1]["amount"] = [numeric |-> TRUE, v |-> 0]
    /\ table[2]["status"] = "pending" /\ table[2]["amount"] = [numeric |-> TRUE, v |-> 0]
    /\ PositionsOf(pending_df) = <<1>>
    /\ PositionsOf(zero_amount_df) = <<2>>
    /\ Len(discarded_df) = 2

\* C2: a run that fails on malformed input (an unparseable postedDate of a
\* VALID row, a non-numeric amount, a missing required column) has written
\* neither the main output file nor the discard file.
C2_FailedRunWritesNothing ==
    pc = "failed" => ~output_file.written /\ ~discard_file.written

\* the text of one input cell as to_csv writes it back
InputCell(i, c) == table[i][c]

\* C9: the discard table is the PENDING-discarded rows in input order followed
\* by the ZERO-discarded rows in input order, each in the input's column shape,
\* and the discard file is written if and only if that table is not empty.
C9_DiscardTablePendingThenZero ==
    DiscardBuilt =>
        LET order == Ascending(PendingClass) \o Ascending(ZeroClass)
        IN /\ Len(discarded_df) = Len(order)
           /\ \A k \in 1..Len(order) :
                 /\ DOMAIN discarded_df[k].row = columns
                 /\ \A c \in columns \ {"amount"} :
                       discarded_df[k].row[c] = table[order[k]][c]
                 /\ discarded_df[k].row["amount"].v = table[order[k]]["amount"].v
                 /\ discarded_df[k].row["amount"].numeric = table[order[k]]["amount"].numeric
           /\ discard_file.written <=> order # <<>>
           /\ discard_file.written =>
                 /\ discard_file.header = HeaderOf(columns)
                 /\ Len(discard_file.rows) = Len(order)
                 /\ \A k \in 1..Len(order) : \A i \in 1..Len(discard_file.header) :
                       discard_file.rows[k][i] = InputCell(order[k], discard_file.header[i])

\* C9 witness: a zero-amount row that precedes a PENDING row in the input
\* follows it in the written discard file.
C9_Witness ==
    /\ DiscardBuilt
    /\ columns = AllColumns
    /\ Len(table) = 2
    /\ table[1]["status"] = "POSTED" /\ table[1]["amount"] = [numeric |-> TRUE, v |-> 0]
    /\ table[2]["status"] = "PENDING" /\ table[2]["amount"] = [numeric |-> TRUE, v |-> 5]
    /\ discard_file.written
    /\ Len(discard_file.rows) = 2
    /\ discard_file.rows[1][7] = "PENDING"
    /\ discard_file.rows[2][7] = "POSTED"

\* transactionType equals "DEBIT" ignoring case
IsDebit(ty) ==
    /\ Len(ty) = 5
    /\ \A i \in 1..5 : Lower(ty[i]) = Lower(DEBIT[i])

ColumnIndex(name) == CHOOSE i \in 1..Len(out_cols) : out_cols[i] = name
Magnitude(n) == IF n >= 0 THEN n ELSE 0 - n

\* C3: the main output holds one data row per VALID input row and no other,
\* in the VALID rows' input order, under the 18 fixed columns in their fixed
\* order; when every required column is present and no row is VALID the file
\* is still written, with its header only.
C3_OutputOneRowPerValidRow ==
    LET order == Ascending(ValidClass)
    IN /\ output_file.written => pc = "done"
       /\ pc = "done" =>
             /\ output_file.written
             /\ output_file.header =
                   <<"Date", "Description", "Category", "Amount", "Account",
                     "Account #", "Institution", "Month", "Week", "Transaction ID",
                     "Account ID", "Check Number", "Full Description", "Date Added",
                     "Category Hint", "Categorized By", "Categorized Date", "Source">>
             /\ Len(output_file.header) = 18
             /\ Len(output_file.rows) = Len(order)
             /\ \A k \in 1..Len(order) :
                   /\ Len(output_file.rows[k]) = 18
                   /\ Magnitude(output_file.rows[k][ColumnIndex("Amount")])
                         = Magnitude(table[order[k]]["amount"].v)
                   /\ output_file.rows[k][ColumnIndex("Amount")] < 0
                         <=> IsDebit(table[order[k]]["transactionType"])
                   /\ output_file.rows[k][ColumnIndex("Date")]
                         = <<table[order[k]]["postedDate"].m,
                             table[order[k]]["postedDate"].d,
                             table[order[k]]["postedDate"].y>>
                   /\ output_file.rows[k][ColumnIndex("Source")] = Mint
       /\ (Finished /\ columns = AllColumns /\ ValidClass = {}) =>
             /\ pc = "done"
             /\ output_file.written
             /\ output_file.rows = <<>>

\* C3 witness: a finished run over two VALID rows wrote them as the two data
\* rows, in input order.
C3_Witness ==
    /\ pc = "done"
    /\ Len(table) = 2
    /\ ValidClass = {1, 2}
    /\ table[1]["amount"].v = -7
    /\ table[2]["amount"].v = 5
    /\ Len(output_file.rows) = 2
    /\ Magnitude(output_file.rows[1][4]) = 7
    /\ Magnitude(output_file.rows[2][4]) = 5

\* C6: the output Amount of a VALID row is -|amount| when transactionType
\* equals "DEBIT" ignoring case and +|amount| for any other text; its sign
\* comes from transactionType alone and it is never zero.
C6_AmountSignFromType ==
    pc \in {"save_output", "done"} =>
        LET order == Ascending(ValidClass)
        IN /\ Len(output_df) = Len(order)
           /\ \A k \in 1..Len(order) :
                 LET a   == table[order[k]]["amount"].v
                     out == output_df[k].row["Amount"]
                 IN /\ IsDebit(table[order[k]]["transactionType"]) => out = 0 - Magnitude(a)
                    /\ ~IsDebit(table[order[k]]["transactionType"]) => out = Magnitude(a)
                    /\ out # 0
                    /\ out < 0 <=> IsDebit(table[order[k]]["transactionType"])

\* C6 witness: a positive debit came out negative and a negative credit positive.
C6_Witness ==
    /\ pc = "done"
    /\ Len(table) = 2
    /\ table[1]["amount"].v = 5 /\ IsDebit(table[1]["transactionType"])
    /\ table[2]["amount"].v = -7 /\ ~IsDebit(table[2]["transactionType"])
    /\ Len(output_df) = 2
    /\ output_df[1].row["Amount"] = -5
    /\ output_df[2].row["Amount"] = 7

(***************************************************************************)
(* Properties of the Flattener (SpecFlattener)                             *)
(***************************************************************************)
\* a comes before b in ascending order of name
Before(a, b) ==
    \E i \in 1..(Len(b)) :
        /\ i <= Len(a) + 1
        /\ \A j \in 1..(i - 1) : a[j] = b[j]
        /\ i = Len(a) + 1 \/ a[i] < b[i]

AllKeys == UNION {DOMAIN data[i] : i \in 1..Len(data)}

ExclusionSet ==
    {<<116, 97, 103, 115>>,                                   \* tags
     <<101, 115, 99, 114, 111, 119>>,                         \* escrow
     <<101, 115, 99, 114, 111, 119, 67, 117, 114, 114, 101, 110, 99, 121>>,  \* escrowCurrency
     <<100, 105, 115, 99, 114, 101, 116, 105, 111, 110, 97, 114, 121, 84, 121, 112, 101>>,  \* discretionaryType
     <<112, 114, 105, 110, 99, 105, 112, 97, 108>>,           \* principal
     <<112, 114, 105, 110, 99, 105, 112, 97, 108, 67, 117, 114, 114, 101, 110, 99, 121>>,  \* principalCurrency
     <<113, 117, 97, 110, 116, 105, 116, 121>>}               \* quantity

\* C4: the output columns are the keys of all input records minus the
\* exclusion set, in ascending order; one row per record, in input order, each
\* with exactly those columns, an absent column empty, an excluded key dropped
\* and the run carried through.
C4_ColumnsSortedUnionMinusExcluded ==
    /\ csv_file.written =>
          /\ {csv_file.header[i] : i \in 1..Len(csv_file.header)} = AllKeys \ ExclusionSet
          /\ \A i \in 1..(Len(csv_file.header) - 1) :
                Before(csv_file.header[i], csv_file.header[i + 1])
          /\ Len(csv_file.rows) = Len(data)
          /\ \A k \in 1..Len(data) :
                /\ Len(csv_file.rows[k]) = Len(csv_file.header)
                /\ \A i \in 1..Len(csv_file.header) :
                      csv_file.rows[k][i] =
                          IF csv_file.header[i] \in DOMAIN data[k]
                          THEN data[k][csv_file.header[i]] ELSE ""
    /\ (fpc = "done" /\ data # <<>>) => csv_file.written

\* C4 witness: of two records, one with an excluded key and one without the
\* other's column, both rows are written under the columns Zed, amount.
C4_Witness ==
    /\ fpc = "done"
    /\ Len(data) = 2
    /\ DOMAIN data[1] = {K_tags, K_amount}
    /\ DOMAIN data[2] = {K_Zed, K_amount}
    /\ csv_file.header = <<K_Zed, K_amount>>
    /\ csv_file.rows = << <<"", "v">>, <<"v", "v">> >>

\* C5: a run over zero records ends without error, writes no output file and
\* reports zero records converted.
C5_EmptyInputReportsZero ==
    (fpc = "done" /\ data = <<>>) =>
        /\ ~csv_file.written
        /\ \E i \in 1..Len(stdout) : stdout[i].records = 0

====
